---- MODULE Spec2Model ----
(***************************************************************************)
(* Model of the tracepoint-to-span adapter of lf-trace-xronos              *)
(* (src/src/trace_impl.c, src/src/otel_backend.c).                         *)
(*                                                                         *)
(* The state is the file-scope data of trace_impl.c (trace_mutex, the      *)
(* object table inside `trace`, backend, tracer, trace_only_reactions),    *)
(* the three thread-local slot variables of every thread, the position of  *)
(* every thread inside lf_tracing_tracepoint or                            *)
(* lf_tracing_register_trace_event, and the spans that are open at the     *)
(* Tracer Capability (opentelemetry-c).                                    *)
(***************************************************************************)
EXTENDS Integers, Sequences, FiniteSets, TLC

(***************************************************************************)
(* Bounds of the model.                                                    *)
(***************************************************************************)
\* Number of OS threads that call into the adapter.
NumThreads == 2
\* Object identities are 0..MaxPointer; 0 is the null pointer.
MaxPointer == 1
\* Reaction indices (dst_id) are -1..MaxDstId; a negative index is "absent".
MaxDstId == 0
\* Capacity of the object table (the build's TRACE_OBJECT_TABLE_SIZE, scaled).
TRACE_OBJECT_TABLE_SIZE == 2

Threads == 1..NumThreads
Pointers == 0..MaxPointer
DstIds == (-1)..MaxDstId
\* Description strings of registered objects ("" is the empty string).
Descriptions == {"", "A"}
\* Span handles the Tracer Capability can hand out: a thread has at most the
\* span stored in its slot and the one it is just creating.
SpanHandles == 1..(2 * NumThreads)

\* Event kinds carried by a trace record (trace_types.h of the runtime).
EventTypes == {"reaction_starts", "reaction_ends", "schedule_called"}

\* The absent record (tr == NULL).
NullRecord == [event_type |-> "NULL", pointer |-> 0, dst_id |-> -1,
               logical_time |-> 0, microstep |-> 0, physical_time |-> 0]
\* Records whose three time fields are all zero.
Records == [event_type : EventTypes, pointer : Pointers, dst_id : DstIds,
            logical_time : {0}, microstep : {0}, physical_time : {0}]
\* object_description_t values passed to register.
ObjectDescriptions == [pointer : Pointers, description : Descriptions]
NoDescription == [pointer |-> 0, description |-> "none"]

VARIABLES
  trace_mutex,              \* "NULL" | "valid" | "freed": the lf_platform_mutex_ptr_t
  holder,                   \* thread holding trace_mutex, 0 when unlocked
  table,                    \* trace._lf_trace_object_descriptions[0..size-1]
  backend,                  \* "NULL" | "initialized" | "freed"
  tracer,                   \* 0 (NULL) or the tracer handle
  tracers_obtained,         \* number of otelc_get_tracer calls so far
  tracers_destroyed,        \* the tracer handles passed to otelc_destroy_tracer so far
  trace_only_reactions,     \* 1 or 0
  active_reaction_span,     \* per thread: 0 (NULL) or a span handle
  active_reaction_pointer,  \* per thread
  active_reaction_dst_id,   \* per thread
  thread_id,                \* per thread: what lf_thread_id() returns on it
  pc,                       \* per thread: position in the running call
  worker,                   \* per thread: the worker argument of the running tracepoint
  cur,                      \* per thread: the tr argument of the running tracepoint
  desc,                     \* per thread: the description argument of a running register
  reactor_desc,             \* per thread: local reactor_desc (index into table, 0 = NULL)
  new_span,                 \* per thread: local span (0 = none)
  path,                     \* per thread: branch the running call has taken
  calls,                    \* per thread: Tracer Capability calls of the running tracepoint
  wrote,                    \* per thread: state the running call has changed so far
  entry,                    \* per thread: the thread's slot when the running call began
  span_owner,               \* per span handle: thread that started it, 0 when not open
  proc                      \* "running" | "exited" | "crashed"

vars == <<trace_mutex, holder, table, backend, tracer, tracers_obtained, tracers_destroyed,
          trace_only_reactions, active_reaction_span, active_reaction_pointer,
          active_reaction_dst_id, thread_id, pc, worker, cur, desc, reactor_desc, new_span,
          path, calls, wrote, entry, span_owner, proc>>

shared == <<trace_mutex, holder, table, backend, tracer, tracers_obtained, tracers_destroyed,
            trace_only_reactions, span_owner, proc>>
slot == <<active_reaction_span, active_reaction_pointer, active_reaction_dst_id>>
locals == <<worker, cur, desc, reactor_desc, new_span, path, calls>>
history == <<wrote, entry>>

\* The slot of thread t as one value, and the Idle slot.
Slot(t) == [span |-> active_reaction_span[t], pointer |-> active_reaction_pointer[t],
            dst_id |-> active_reaction_dst_id[t]]
IdleSlot == [span |-> 0, pointer |-> 0, dst_id |-> -1]


(***************************************************************************)
(* Helpers of trace_impl.c and the capabilities it consumes.               *)
(***************************************************************************)

\* lf_thread_id() of the host runtime: >= 0 on a runtime-managed worker,
\* negative on a thread the user created.
lf_thread_id(t) == thread_id[t]

\* Mutant: no caller is taken for an unmanaged thread.
tid_negative_Never(t) == FALSE

\* if (tid < 0): the caller is not a runtime-managed worker, so the call
\* falls back to trace_mutex.
tid_negative(t) == lf_thread_id(t) < 0

\* Mutant: the return of a rejected event leaves out the unlock.
unlocks_on_return_NotWhenRejected(t) == tid_negative(t) /\ path[t] # "rejected"

\* if (tid < 0) lf_platform_mutex_unlock(trace_mutex); before every return.
unlocks_on_return(t) == tid_negative(t)

\* int is_reaction_event = (tr->event_type == reaction_starts || ... == reaction_ends)
is_reaction_event(tr) == tr.event_type \in {"reaction_starts", "reaction_ends"}

\* Mutant: the filter lets only reaction_starts through.
filter_rejects_StartsOnly(tr) == trace_only_reactions # 0 /\ tr.event_type # "reaction_starts"

\* if (trace_only_reactions && !is_reaction_event) return;
filter_rejects(tr) == trace_only_reactions # 0 /\ ~is_reaction_event(tr)

\* Indices of the table entries whose pointer equals `pointer`.
Matches(tbl, pointer) == {i \in 1..Len(tbl) : tbl[i].pointer = pointer}

\* Mutant: the scan stops one entry short of the table's size.
find_object_description_ShortScan(tbl, pointer) ==
  IF pointer = 0 THEN 0
  ELSE IF Matches(SubSeq(tbl, 1, Len(tbl) - 1), pointer) = {} THEN 0
  ELSE CHOOSE i \in Matches(tbl, pointer) : \A j \in Matches(tbl, pointer) : i <= j

\* find_object_description: NULL (0) for a null pointer, else the first entry
\* (as its index) whose pointer matches, else NULL.
find_object_description(tbl, pointer) ==
  IF pointer = 0 THEN 0
  ELSE IF Matches(tbl, pointer) = {} THEN 0
  ELSE CHOOSE i \in Matches(tbl, pointer) : \A j \in Matches(tbl, pointer) : i <= j

\* Mutant: a registration on a full table overwrites the last entry.
register_store_OverwriteLast(tbl, d) ==
  IF Len(tbl) < TRACE_OBJECT_TABLE_SIZE THEN Append(tbl, d)
  ELSE [tbl EXCEPT ![Len(tbl)] = d]

\* The table after lf_tracing_register_trace_event has stored (or dropped) d.
register_store(tbl, d) ==
  IF Len(tbl) < TRACE_OBJECT_TABLE_SIZE THEN Append(tbl, d) ELSE tbl

\* otelc_start_span returns a handle that is not in use.
FreeHandles == {s \in SpanHandles : span_owner[s] = 0}
otelc_start_span == CHOOSE s \in FreeHandles : \A r \in FreeHandles : s <= r

Call(op, s) == [op |-> op, span |-> s]

\* A char* that is NULL (no description string is spelled like this).
NullString == "(null)"

\* snprintf(..., "%d", n): the decimal rendering of an int.
decimal(n) == ToString(n)

\* reactor_desc ? reactor_desc->description : NULL, for entry d of the table
\* (d = 0 is reactor_desc == NULL).
description_of(tbl, d) == IF d = 0 THEN NullString ELSE tbl[d].description

\* Mutant: the FQN is built for a negative reaction number too.
build_reaction_fqn_AnyNumber(tbl, d, reaction_number, malloc_ok) ==
  IF description_of(tbl, d) \in {NullString, ""} THEN NullString
  ELSE IF ~malloc_ok THEN NullString
  ELSE description_of(tbl, d) \o "." \o decimal(reaction_number)

\* build_reaction_fqn: NULL without a non-empty description, for a negative
\* reaction number, or when malloc fails; else "<description>.<number>".
build_reaction_fqn(tbl, d, reaction_number, malloc_ok) ==
  IF description_of(tbl, d) \in {NullString, ""} THEN NullString
  ELSE IF reaction_number < 0 THEN NullString
  ELSE IF ~malloc_ok THEN NullString
  ELSE description_of(tbl, d) \o "." \o decimal(reaction_number)

\* Mutant: without an FQN the name is the description, whatever it is.
span_name_NoLiteral(tbl, d, reaction_fqn) ==
  IF reaction_fqn # NullString THEN reaction_fqn ELSE description_of(tbl, d)

\* const char* span_name = reaction_fqn ? reaction_fqn
\*   : (reactor_desc has a non-empty description) ? that description : "reaction".
span_name(tbl, d, reaction_fqn) ==
  IF reaction_fqn # NullString THEN reaction_fqn
  ELSE IF description_of(tbl, d) \notin {NullString, ""} THEN description_of(tbl, d)
  ELSE "reaction"

\* trace_event_names[] of the runtime's trace_types.h, for the kinds modelled.
trace_event_names ==
  [k \in EventTypes |->
     CASE k = "reaction_starts" -> "Reaction starts"
       [] k = "reaction_ends" -> "Reaction ends"
       [] k = "schedule_called" -> "Schedule called"]

\* get_event_type_name: the table entry, or "Unknown event" out of range.
get_event_type_name(event_type) ==
  IF event_type \in EventTypes THEN trace_event_names[event_type] ELSE "Unknown event"

\* Mutant: the key list omits xronos.container_fqn when it was set.
low_cardinality_schema_NoContainer(has_description, has_container_fqn) ==
  IF has_description
    THEN <<"xronos.element_type", "xronos.fqn", "xronos.name">>
    ELSE <<"xronos.element_type">>

\* set_low_cardinality_schema_attr: the value stored under
\* xronos.schema.low_cardinality_attributes, chosen by the two flags.
low_cardinality_schema(has_description, has_container_fqn) ==
  IF has_description
    THEN IF has_container_fqn
           THEN <<"xronos.element_type", "xronos.fqn", "xronos.name", "xronos.container_fqn">>
           ELSE <<"xronos.element_type", "xronos.fqn", "xronos.name">>
    ELSE <<"xronos.element_type">>

\* Mutant: xronos.name carries the reaction's FQN instead of its number.
set_reaction_low_cardinality_attributes_NameIsFqn(reaction_fqn, reaction_number, reactor_fqn) ==
  LET has_description == reaction_fqn # NullString
      has_container_fqn == has_description /\ reactor_fqn \notin {NullString, ""}
      base == "xronos.element_type" :> "reaction"
      named == IF has_description
                 THEN base @@ ("xronos.fqn" :> reaction_fqn) @@ ("xronos.name" :> reaction_fqn)
                 ELSE base
      contained == IF has_container_fqn
                     THEN named @@ ("xronos.container_fqn" :> reactor_fqn)
                     ELSE named
  IN contained @@ ("xronos.schema.low_cardinality_attributes" :>
                     low_cardinality_schema(has_description, has_container_fqn))

\* The attribute map set_reaction_low_cardinality_attributes attaches.
set_reaction_low_cardinality_attributes(reaction_fqn, reaction_number, reactor_fqn) ==
  LET has_description == reaction_fqn # NullString
      has_container_fqn == has_description /\ reactor_fqn \notin {NullString, ""}
      base == "xronos.element_type" :> "reaction"
      named == IF has_description
                 THEN base @@ ("xronos.fqn" :> reaction_fqn)
                           @@ ("xronos.name" :> decimal(reaction_number))
                 ELSE base
      contained == IF has_container_fqn
                     THEN named @@ ("xronos.container_fqn" :> reactor_fqn)
                     ELSE named
  IN contained @@ ("xronos.schema.low_cardinality_attributes" :>
                     low_cardinality_schema(has_description, has_container_fqn))

\* The attribute map set_event_low_cardinality_attributes attaches.
set_event_low_cardinality_attributes ==
  ("xronos.element_type" :> "trace_event")
    @@ ("xronos.schema.low_cardinality_attributes" :> low_cardinality_schema(FALSE, FALSE))

\* (uint32_t)x for an x of at most 32 bits: a value that is not negative is
\* kept, a negative one wraps around by 2^32 (= 2147483647 + 2147483647 + 2).
uint32_t(x) == IF x >= 0 THEN x ELSE x + 2147483647 + 2147483647 + 2

\* Mutant: a negative lag is clamped to zero.
lag_Clamped(tr) ==
  IF tr.physical_time < tr.logical_time THEN 0 ELSE tr.physical_time - tr.logical_time

\* tr->physical_time - tr->logical_time, both int64_t.
lag(tr) == tr.physical_time - tr.logical_time

\* The attribute map set_common_high_cardinality_attributes attaches.
set_common_high_cardinality_attributes(tr) ==
  ("xronos.timestamp" :> tr.logical_time)
    @@ ("xronos.microstep" :> uint32_t(tr.microstep))
    @@ ("xronos.lag" :> lag(tr))

\* The calls otelc_start_span(tracer, name, ...) and otelc_set_span_attrs(span, map).
StartCall(s, trc, name) == [op |-> "start_span", span |-> s, tracer |-> trc, name |-> name]
AttrsCall(s, map) == [op |-> "set_span_attrs", span |-> s, attrs |-> map]

\* Mutant: the high-cardinality batch is attached before the low-cardinality one.
attach_batches_HighFirst(s, low, high) == <<AttrsCall(s, high), AttrsCall(s, low)>>

\* set_*_low_cardinality_attributes(span, ...) and then
\* set_common_high_cardinality_attributes(span, tr): one otelc_set_span_attrs each.
attach_batches(s, low, high) == <<AttrsCall(s, low), AttrsCall(s, high)>>

\* Mutant: reaction_ends ends the span only when the record's subject matches.
ends_closes_IfSubjectMatches(t) ==
  active_reaction_span[t] # 0 /\ cur[t].pointer = active_reaction_pointer[t]

\* Mutant: reaction_ends calls otelc_end_span without the NULL check.
ends_closes_Unchecked(t) == TRUE

\* reaction_ends: "if (active_reaction_span) otelc_end_span(active_reaction_span)".
ends_closes(t) == active_reaction_span[t] # 0

\* Mutant: the slot written is the one of the worker named by the argument.
slot_owner_ByWorker(t) == worker[t] + 1

\* static _Thread_local: the slot variables a call writes are those of the
\* thread it runs on.
slot_owner(t) == t

\* Mutant: reaction_ends leaves the ended span's handle in the slot.
span_after_ends_Kept(t) == active_reaction_span[t]

\* reaction_ends: "active_reaction_span = NULL".
span_after_ends(t) == 0

\* Mutant: reaction_starts overwrites the slot without ending the previous span.
starts_closes_previous_Never(t) == FALSE

\* reaction_starts: "if (active_reaction_span) otelc_end_span(active_reaction_span)".
starts_closes_previous(t) == active_reaction_span[t] # 0

\* Mutant: the verbose event path ends the span stored in the slot.
event_span_to_end_Stored(t) == active_reaction_span[t]

\* The handle the verbose event path passes to otelc_end_span.
event_span_to_end(t) == new_span[t]

\* Which of tracer, registry and the thread's own slot a step of thread t changed.
Changed(t) ==
  (IF tracer' # tracer THEN {"tracer"} ELSE {})
  \cup (IF table' # table THEN {"registry"} ELSE {})
  \cup (IF \/ active_reaction_span'[t] # active_reaction_span[t]
           \/ active_reaction_pointer'[t] # active_reaction_pointer[t]
           \/ active_reaction_dst_id'[t] # active_reaction_dst_id[t]
        THEN {"slot"} ELSE {})
Touch(t) == wrote' = [wrote EXCEPT ![t] = @ \cup Changed(t)]

Running == proc = "running"

(***************************************************************************)
(* lf_platform_mutex_lock / unlock on trace_mutex.  Locking or unlocking a *)
(* mutex that was never created or was already freed is undefined: the     *)
(* call may crash the process, or return without giving exclusion; on a    *)
(* freed mutex whose memory is still intact it may also behave as before.  *)
(***************************************************************************)
mutex_lock(t, next) ==
  \/ /\ trace_mutex = "valid"
     /\ holder = 0
     /\ holder' = t
     /\ pc' = [pc EXCEPT ![t] = next]
     /\ UNCHANGED proc
  \/ /\ trace_mutex # "valid"
     /\ \/ proc' = "crashed" /\ UNCHANGED <<holder, pc>>
        \/ UNCHANGED <<holder, proc>> /\ pc' = [pc EXCEPT ![t] = next]
        \/ /\ trace_mutex = "freed"
           /\ holder = 0
           /\ holder' = t
           /\ pc' = [pc EXCEPT ![t] = next]
           /\ UNCHANGED proc

mutex_unlock(t, next) ==
  \/ /\ holder = t
     /\ trace_mutex = "valid"
     /\ holder' = 0
     /\ pc' = [pc EXCEPT ![t] = next]
     /\ UNCHANGED proc
  \/ /\ ~(holder = t /\ trace_mutex = "valid")
     /\ \/ proc' = "crashed" /\ UNCHANGED <<holder, pc>>
        \/ UNCHANGED <<holder, proc>> /\ pc' = [pc EXCEPT ![t] = next]
        \/ holder' = 0 /\ holder # 0 /\ UNCHANGED proc /\ pc' = [pc EXCEPT ![t] = next]


(***************************************************************************)
(* lf_tracing_tracepoint(worker, tr), split at every access to shared      *)
(* state and every call into the Tracer Capability.  The worker argument   *)
(* is cast to void; the slot a call works on is the calling thread's.      *)
(***************************************************************************)

\* Entry: int tid = lf_thread_id(); if (tid < 0) take the lock path.
TP_Call(t, w, tr) ==
  /\ Running
  /\ pc[t] = "idle"
  /\ worker' = [worker EXCEPT ![t] = w]
  /\ pc' = [pc EXCEPT ![t] = IF tid_negative(t) THEN "tp_lock" ELSE "tp_tracer"]
  /\ cur' = [cur EXCEPT ![t] = tr]
  /\ path' = [path EXCEPT ![t] = "none"]
  /\ calls' = [calls EXCEPT ![t] = <<>>]
  /\ wrote' = [wrote EXCEPT ![t] = {}]
  /\ entry' = [entry EXCEPT ![t] = Slot(t)]
  /\ UNCHANGED <<shared, slot, thread_id, desc, reactor_desc, new_span>>

\* lf_platform_mutex_lock(trace_mutex) on an unmanaged thread.
TP_Lock(t) ==
  /\ Running
  /\ pc[t] = "tp_lock"
  /\ mutex_lock(t, "tp_tracer")
  /\ UNCHANGED <<trace_mutex, table, backend, tracer, tracers_obtained, tracers_destroyed,
                 trace_only_reactions, span_owner, slot, thread_id, locals, history>>

\* if (!tracer) ...
TP_CheckTracer(t) ==
  /\ Running
  /\ pc[t] = "tp_tracer"
  /\ pc' = [pc EXCEPT ![t] = IF tracer = 0 THEN "tp_get_tracer" ELSE "tp_filter"]
  /\ UNCHANGED <<shared, slot, thread_id, locals, history>>

\* ... tracer = otelc_get_tracer();
TP_GetTracer(t) ==
  /\ Running
  /\ pc[t] = "tp_get_tracer"
  /\ tracers_obtained' = tracers_obtained + 1
  /\ tracer' = tracers_obtained + 1
  /\ UNCHANGED tracers_destroyed
  /\ pc' = [pc EXCEPT ![t] = "tp_filter"]
  /\ UNCHANGED <<trace_mutex, holder, table, backend, trace_only_reactions,
                 span_owner, proc, slot, thread_id, locals>>
  /\ Touch(t)
  /\ UNCHANGED entry

\* The null check, the event filter and the dispatch on the event kind.
TP_Filter(t) ==
  /\ Running
  /\ pc[t] = "tp_filter"
  /\ LET tr == cur[t]
         p == IF tr = NullRecord THEN "null"
              ELSE IF filter_rejects(tr) THEN "rejected"
              ELSE IF tr.event_type = "reaction_ends" THEN "ends"
              ELSE IF tr.event_type = "reaction_starts" THEN "starts"
              ELSE "event"
     IN /\ path' = [path EXCEPT ![t] = p]
        /\ pc' = [pc EXCEPT ![t] =
                    CASE p = "ends" -> "tp_ends"
                      [] p = "starts" -> "tp_find"
                      [] p = "event" -> "tp_event"
                      [] OTHER -> "tp_unlock"]
  /\ UNCHANGED <<shared, slot, thread_id, worker, cur, desc, reactor_desc, new_span, calls, history>>

\* reaction_ends: end the stored span if there is one, clear the slot.
TP_ReactionEnds(t) ==
  /\ Running
  /\ pc[t] = "tp_ends"
  /\ IF ends_closes(t)
       THEN /\ span_owner' = [s \in SpanHandles |->
                                IF s = active_reaction_span[t] THEN 0 ELSE span_owner[s]]
            /\ calls' = [calls EXCEPT ![t] = Append(@, Call("end_span", active_reaction_span[t]))]
       ELSE UNCHANGED <<span_owner, calls>>
  /\ active_reaction_span' = [active_reaction_span EXCEPT ![slot_owner(t)] = span_after_ends(t)]
  /\ active_reaction_pointer' = [active_reaction_pointer EXCEPT ![slot_owner(t)] = 0]
  /\ active_reaction_dst_id' = [active_reaction_dst_id EXCEPT ![slot_owner(t)] = -1]
  /\ pc' = [pc EXCEPT ![t] = "tp_unlock"]
  /\ UNCHANGED <<trace_mutex, holder, table, backend, tracer, tracers_obtained, tracers_destroyed,
                 trace_only_reactions, proc, thread_id, worker, cur, desc, reactor_desc,
                 new_span, path>>
  /\ Touch(t)
  /\ UNCHANGED entry

\* reaction_starts: reactor_desc = find_object_description(tr->pointer).
TP_Find(t) ==
  /\ Running
  /\ pc[t] = "tp_find"
  /\ reactor_desc' = [reactor_desc EXCEPT ![t] = find_object_description(table, cur[t].pointer)]
  /\ pc' = [pc EXCEPT ![t] = "tp_start"]
  /\ UNCHANGED <<shared, slot, thread_id, worker, cur, desc, new_span, path, calls, history>>

\* reaction_starts: build_reaction_fqn (malloc_ok: its malloc succeeds), the
\* span name, otelc_start_span and the two attribute batches.
TP_StartSpan(t, malloc_ok) ==
  /\ Running
  /\ pc[t] = "tp_start"
  /\ FreeHandles # {}
  /\ LET s == otelc_start_span
         tr == cur[t]
         d == reactor_desc[t]
         reaction_fqn == build_reaction_fqn(table, d, tr.dst_id, malloc_ok)
     IN /\ new_span' = [new_span EXCEPT ![t] = s]
        /\ span_owner' = [span_owner EXCEPT ![s] = t]
        /\ calls' = [calls EXCEPT ![t] =
                       @ \o <<StartCall(s, tracer, span_name(table, d, reaction_fqn))>>
                         \o attach_batches(s,
                              set_reaction_low_cardinality_attributes(
                                reaction_fqn, tr.dst_id, description_of(table, d)),
                              set_common_high_cardinality_attributes(tr))]
  /\ pc' = [pc EXCEPT ![t] = "tp_stash"]
  /\ UNCHANGED <<trace_mutex, holder, table, backend, tracer, tracers_obtained, tracers_destroyed,
                 trace_only_reactions, proc, slot, thread_id, worker, cur, desc, reactor_desc,
                 path, history>>

\* reaction_starts: end any previous active span, stash the new one.
TP_Stash(t) ==
  /\ Running
  /\ pc[t] = "tp_stash"
  /\ IF starts_closes_previous(t)
       THEN /\ span_owner' = [s \in SpanHandles |->
                                IF s = active_reaction_span[t] THEN 0 ELSE span_owner[s]]
            /\ calls' = [calls EXCEPT ![t] = Append(@, Call("end_span", active_reaction_span[t]))]
       ELSE UNCHANGED <<span_owner, calls>>
  /\ active_reaction_span' = [active_reaction_span EXCEPT ![slot_owner(t)] = new_span[t]]
  /\ active_reaction_pointer' = [active_reaction_pointer EXCEPT ![slot_owner(t)] = cur[t].pointer]
  /\ active_reaction_dst_id' = [active_reaction_dst_id EXCEPT ![slot_owner(t)] = cur[t].dst_id]
  /\ new_span' = [new_span EXCEPT ![t] = 0]
  /\ reactor_desc' = [reactor_desc EXCEPT ![t] = 0]
  /\ pc' = [pc EXCEPT ![t] = "tp_unlock"]
  /\ UNCHANGED <<trace_mutex, holder, table, backend, tracer, tracers_obtained, tracers_destroyed,
                 trace_only_reactions, proc, thread_id, worker, cur, desc, path>>
  /\ Touch(t)
  /\ UNCHANGED entry

\* Non-reaction event (verbose): otelc_start_span and the two attribute batches.
TP_EventStart(t) ==
  /\ Running
  /\ pc[t] = "tp_event"
  /\ FreeHandles # {}
  /\ LET s == otelc_start_span
         tr == cur[t]
     IN /\ new_span' = [new_span EXCEPT ![t] = s]
        /\ span_owner' = [span_owner EXCEPT ![s] = t]
        /\ calls' = [calls EXCEPT ![t] =
                       @ \o <<StartCall(s, tracer, get_event_type_name(tr.event_type))>>
                         \o attach_batches(s, set_event_low_cardinality_attributes,
                                           set_common_high_cardinality_attributes(tr))]
  /\ pc' = [pc EXCEPT ![t] = "tp_event_end"]
  /\ UNCHANGED <<trace_mutex, holder, table, backend, tracer, tracers_obtained, tracers_destroyed,
                 trace_only_reactions, proc, slot, thread_id, worker, cur, desc, reactor_desc,
                 path, history>>

\* Non-reaction event (verbose): otelc_end_span(span).
TP_EventEnd(t) ==
  /\ Running
  /\ pc[t] = "tp_event_end"
  /\ LET s == event_span_to_end(t)
     IN /\ span_owner' = [r \in SpanHandles |-> IF r = s THEN 0 ELSE span_owner[r]]
        /\ calls' = [calls EXCEPT ![t] = Append(@, Call("end_span", s))]
  /\ new_span' = [new_span EXCEPT ![t] = 0]
  /\ pc' = [pc EXCEPT ![t] = "tp_unlock"]
  /\ UNCHANGED <<trace_mutex, holder, table, backend, tracer, tracers_obtained, tracers_destroyed,
                 trace_only_reactions, proc, slot, thread_id, worker, cur, desc, reactor_desc,
                 path, history>>

\* The arguments and the record of what the call did end with the call.
Forget(t) ==
  /\ worker' = [worker EXCEPT ![t] = -1]
  /\ cur' = [cur EXCEPT ![t] = NullRecord]
  /\ desc' = [desc EXCEPT ![t] = NoDescription]
  /\ path' = [path EXCEPT ![t] = "none"]
  /\ calls' = [calls EXCEPT ![t] = <<>>]
  /\ wrote' = [wrote EXCEPT ![t] = {}]
  /\ entry' = [entry EXCEPT ![t] = IdleSlot]

\* Every return path: if (tid < 0) lf_platform_mutex_unlock(trace_mutex); return.
TP_Return(t) ==
  /\ Running
  /\ pc[t] = "tp_unlock"
  /\ IF unlocks_on_return(t)
       THEN mutex_unlock(t, "idle")
       ELSE pc' = [pc EXCEPT ![t] = "idle"] /\ UNCHANGED <<holder, proc>>
  /\ Forget(t)
  /\ UNCHANGED <<trace_mutex, table, backend, tracer, tracers_obtained, tracers_destroyed,
                 trace_only_reactions, span_owner, slot, thread_id, reactor_desc, new_span>>

(***************************************************************************)
(* lf_tracing_register_trace_event(description).                           *)
(***************************************************************************)
Reg_Call(t, d) ==
  /\ Running
  /\ pc[t] = "idle"
  /\ pc' = [pc EXCEPT ![t] = "reg_lock"]
  /\ desc' = [desc EXCEPT ![t] = d]
  /\ worker' = [worker EXCEPT ![t] = -1]
  /\ cur' = [cur EXCEPT ![t] = NullRecord]
  /\ path' = [path EXCEPT ![t] = "register"]
  /\ calls' = [calls EXCEPT ![t] = <<>>]
  /\ wrote' = [wrote EXCEPT ![t] = {}]
  /\ entry' = [entry EXCEPT ![t] = Slot(t)]
  /\ UNCHANGED <<shared, slot, thread_id, reactor_desc, new_span>>

\* lf_platform_mutex_lock(trace_mutex);
Reg_Lock(t) ==
  /\ Running
  /\ pc[t] = "reg_lock"
  /\ mutex_lock(t, "reg_write")
  /\ UNCHANGED <<trace_mutex, table, backend, tracer, tracers_obtained, tracers_destroyed,
                 trace_only_reactions, span_owner, slot, thread_id, locals, history>>

\* if (size < TRACE_OBJECT_TABLE_SIZE) { table[size] = description; size++; }
Reg_Write(t) ==
  /\ Running
  /\ pc[t] = "reg_write"
  /\ table' = register_store(table, desc[t])
  /\ pc' = [pc EXCEPT ![t] = "reg_unlock"]
  /\ UNCHANGED <<trace_mutex, holder, backend, tracer, tracers_obtained, tracers_destroyed,
                 trace_only_reactions, span_owner, proc, slot, thread_id, locals>>
  /\ Touch(t)
  /\ UNCHANGED entry

\* lf_platform_mutex_unlock(trace_mutex); return.
Reg_Return(t) ==
  /\ Running
  /\ pc[t] = "reg_unlock"
  /\ mutex_unlock(t, "idle")
  /\ Forget(t)
  /\ UNCHANGED <<trace_mutex, table, backend, tracer, tracers_obtained, tracers_destroyed,
                 trace_only_reactions, span_owner, slot, thread_id, reactor_desc, new_span>>

(***************************************************************************)
(* lf_tracing_global_init and lf_tracing_global_shutdown, called by the    *)
(* runtime's main thread: init once, shutdown once after it.               *)
(***************************************************************************)

\* Mutant: a failed lf_platform_mutex_new() is only warned about, and
\* initialisation goes on without a mutex.
lf_tracing_global_init_WarnOnly(mutex_ok, verbose_env, create_ok) ==
  /\ Running
  /\ trace_mutex = "NULL"
  /\ tracers_obtained = 0
  /\ trace_mutex' = IF mutex_ok THEN "valid" ELSE "NULL"
  /\ holder' = 0
  /\ trace_only_reactions' = IF verbose_env = "1" THEN 0 ELSE trace_only_reactions
  /\ backend' = IF create_ok THEN "initialized" ELSE "NULL"
  /\ tracers_obtained' = tracers_obtained + 1
  /\ tracer' = tracers_obtained + 1
  /\ UNCHANGED <<tracers_destroyed, proc>>
  /\ UNCHANGED <<table, span_owner, slot, thread_id, pc, locals, history>>

\* mutex_ok: lf_platform_mutex_new() returned a mutex.
\* verbose_env: getenv("LF_TRACE_VERBOSE"), "unset" when it is NULL.
\* create_ok: otel_backend_create returned a backend (no allocation failed).
lf_tracing_global_init(mutex_ok, verbose_env, create_ok) ==
  /\ Running
  /\ trace_mutex = "NULL"
  /\ IF ~mutex_ok
       THEN /\ proc' = "exited"
            /\ UNCHANGED <<trace_mutex, holder, backend, tracer, tracers_obtained, tracers_destroyed,
                           trace_only_reactions>>
       ELSE /\ trace_mutex' = "valid"
            /\ holder' = 0
            /\ trace_only_reactions' = IF verbose_env = "1" THEN 0 ELSE trace_only_reactions
            /\ backend' = IF create_ok THEN "initialized" ELSE "NULL"
            /\ tracers_obtained' = tracers_obtained + 1
            /\ tracer' = tracers_obtained + 1
            /\ UNCHANGED <<tracers_destroyed, proc>>
  /\ UNCHANGED <<table, span_owner, slot, thread_id, pc, locals, history>>

lf_tracing_global_shutdown ==
  /\ Running
  /\ trace_mutex = "valid"
  /\ tracers_destroyed' = IF tracer # 0 THEN tracers_destroyed \cup {tracer}
                                        ELSE tracers_destroyed
  /\ tracer' = 0
  /\ backend' = IF backend = "NULL" THEN "NULL" ELSE "freed"
  /\ trace_mutex' = "freed"
  /\ UNCHANGED <<holder, table, tracers_obtained, trace_only_reactions, span_owner,
                 proc, slot, thread_id, pc, locals, history>>

(***************************************************************************)
(* Initial state: the static initialisers of trace_impl.c.                 *)
(***************************************************************************)
InitData ==
  /\ trace_mutex = "NULL"
  /\ holder = 0
  /\ table = <<>>
  /\ backend = "NULL"
  /\ tracer = 0
  /\ tracers_obtained = 0
  /\ tracers_destroyed = {}
  /\ trace_only_reactions = 1
  /\ active_reaction_span = [t \in Threads |-> 0]
  /\ active_reaction_pointer = [t \in Threads |-> 0]
  /\ active_reaction_dst_id = [t \in Threads |-> -1]
  /\ pc = [t \in Threads |-> "idle"]
  /\ worker = [t \in Threads |-> -1]
  /\ cur = [t \in Threads |-> NullRecord]
  /\ desc = [t \in Threads |-> NoDescription]
  /\ reactor_desc = [t \in Threads |-> 0]
  /\ new_span = [t \in Threads |-> 0]
  /\ path = [t \in Threads |-> "none"]
  /\ calls = [t \in Threads |-> <<>>]
  /\ wrote = [t \in Threads |-> {}]
  /\ entry = [t \in Threads |-> IdleSlot]
  /\ span_owner = [s \in SpanHandles |-> 0]
  /\ proc = "running"

\* A thread is a runtime-managed worker (id t - 1) or an unmanaged thread (-1).
ThreadIds == {f \in [Threads -> (-1)..(NumThreads - 1)] : \A t \in Threads : f[t] \in {-1, t - 1}}

\* Steps of thread t inside lf_tracing_tracepoint, called with a record of
\* Recs; MallocOks are the outcomes of malloc in build_reaction_fqn tried.
TracepointStep(t, Recs, MallocOks) ==
  \/ \E tr \in Recs : TP_Call(t, lf_thread_id(t), tr)
  \/ TP_Lock(t)
  \/ TP_CheckTracer(t)
  \/ TP_GetTracer(t)
  \/ TP_Filter(t)
  \/ TP_ReactionEnds(t)
  \/ TP_Find(t)
  \/ \E malloc_ok \in MallocOks : TP_StartSpan(t, malloc_ok)
  \/ TP_Stash(t)
  \/ TP_EventStart(t)
  \/ TP_EventEnd(t)
  \/ TP_Return(t)

\* Steps of thread t inside lf_tracing_register_trace_event, called with a
\* description of Descs.
RegisterStep(t, Descs) ==
  \/ \E d \in Descs : Reg_Call(t, d)
  \/ Reg_Lock(t)
  \/ Reg_Write(t)
  \/ Reg_Return(t)

\* The lifecycle hooks; CreateOks are the outcomes of otel_backend_create tried.
Lifecycle(CreateOks) ==
  \/ \E mutex_ok \in BOOLEAN, verbose_env \in {"unset", "0", "1"}, create_ok \in CreateOks :
        lf_tracing_global_init(mutex_ok, verbose_env, create_ok)
  \/ lf_tracing_global_shutdown

(***************************************************************************)
(* Spec: one thread (a managed worker or an unmanaged thread), every       *)
(* record, one registered object.                                          *)
(***************************************************************************)
SeqThreads == {1}
SeqDescriptions == {[pointer |-> 1, description |-> "A"]}

Init ==
  /\ InitData
  /\ thread_id \in {f \in ThreadIds : \A t \in Threads \ SeqThreads : f[t] = -1}

Next ==
  \/ \E t \in SeqThreads : TracepointStep(t, Records \cup {NullRecord}, {TRUE})
  \/ \E t \in SeqThreads : RegisterStep(t, SeqDescriptions)
  \/ Lifecycle({TRUE})

Spec == Init /\ [][Next]_vars


(***************************************************************************)
(* SpecReg: one thread, every object description registered, and the       *)
(* records that make tracepoints look objects up.                          *)
(***************************************************************************)
RegRecords ==
  {r \in Records : r.dst_id = 0 /\ r.pointer = 1 /\ r.event_type = "reaction_starts"}
    \cup {r \in Records : r.dst_id = 0 /\ r.pointer = 0 /\ r.event_type # "reaction_starts"}

\* Every identity (the null one too) under one description, and identity 1
\* under a second description.
RegDescriptions == {d \in ObjectDescriptions : d.description = "A" \/ d.pointer = 1}

NextReg ==
  \/ \E t \in SeqThreads : TracepointStep(t, RegRecords, {TRUE})
  \/ \E t \in SeqThreads : RegisterStep(t, RegDescriptions)
  \/ Lifecycle({TRUE})

SpecReg == Init /\ [][NextReg]_vars

(***************************************************************************)
(* SpecConc: every thread, managed or unmanaged, calling concurrently      *)
(* while the adapter is up.  The runtime calls lf_tracing_global_init      *)
(* before it starts its threads and lf_tracing_global_shutdown after they  *)
(* have stopped, so here a call begins only between the two and the tracer *)
(* is never found NULL.                                                    *)
(***************************************************************************)
ConcRecords == RegRecords

InitConc ==
  /\ InitData
  /\ thread_id \in ThreadIds

Up == trace_mutex = "valid"
AllIdle == \A t \in Threads : pc[t] = "idle"

ConcCall(t) ==
  \/ \E tr \in ConcRecords \cup {NullRecord} : Up /\ TP_Call(t, lf_thread_id(t), tr)
  \/ \E d \in SeqDescriptions : Up /\ Reg_Call(t, d)

ConcLifecycle ==
  \/ \E mutex_ok \in BOOLEAN, verbose_env \in {"unset", "1"} :
        lf_tracing_global_init(mutex_ok, verbose_env, TRUE)
  \/ AllIdle /\ lf_tracing_global_shutdown

NextConc ==
  \/ \E t \in Threads :
       \/ ConcCall(t)
       \/ TP_Lock(t)
       \/ TP_CheckTracer(t)
       \/ TP_Filter(t)
       \/ TP_ReactionEnds(t)
       \/ TP_Find(t)
       \/ TP_StartSpan(t, TRUE)
       \/ TP_Stash(t)
       \/ TP_EventStart(t)
       \/ TP_EventEnd(t)
       \/ TP_Return(t)
       \/ Reg_Lock(t)
       \/ Reg_Write(t)
       \/ Reg_Return(t)
  \/ ConcLifecycle

SpecConc == InitConc /\ [][NextConc]_vars

(***************************************************************************)
(* SpecAttr: one thread, records that carry time stamps, subjects that     *)
(* resolve to a description with a separator in it, to an empty            *)
(* description or to nothing, and a malloc in build_reaction_fqn that may  *)
(* fail.  As in SpecConc a call begins only while the adapter is up.       *)
(***************************************************************************)
\* <<logical_time, microstep, physical_time>> of the records tried.
AttrStamps == {<<1000, 0, 950>>, <<100, 0, 105>>, <<0, 1, 0>>}

AttrRecords ==
  {[event_type |-> k, pointer |-> p, dst_id |-> i,
    logical_time |-> st[1], microstep |-> st[2], physical_time |-> st[3]] :
      k \in {"reaction_starts"}, p \in Pointers, i \in DstIds, st \in AttrStamps}
    \cup {[event_type |-> "schedule_called", pointer |-> 0, dst_id |-> -1,
            logical_time |-> st[1], microstep |-> st[2], physical_time |-> st[3]] :
             st \in AttrStamps}
    \cup {r \in Records : r.event_type = "reaction_ends" /\ r.pointer = 0 /\ r.dst_id = -1}

AttrDescriptions ==
  {[pointer |-> 1, description |-> "Parent.Child"],
   [pointer |-> 1, description |-> ""],
   [pointer |-> 0, description |-> "A"]}

AttrCall(t) ==
  \/ \E tr \in AttrRecords : Up /\ TP_Call(t, lf_thread_id(t), tr)
  \/ \E d \in AttrDescriptions : Up /\ Reg_Call(t, d)

NextAttr ==
  \/ \E t \in SeqThreads :
       \/ AttrCall(t)
       \/ TP_Lock(t)
       \/ TP_CheckTracer(t)
       \/ TP_Filter(t)
       \/ TP_ReactionEnds(t)
       \/ TP_Find(t)
       \/ \E malloc_ok \in BOOLEAN : TP_StartSpan(t, malloc_ok)
       \/ TP_Stash(t)
       \/ TP_EventStart(t)
       \/ TP_EventEnd(t)
       \/ TP_Return(t)
       \/ Reg_Lock(t)
       \/ Reg_Write(t)
       \/ Reg_Return(t)
  \/ ConcLifecycle

SpecAttr == Init /\ [][NextAttr]_vars

(***************************************************************************)
(* SpecLock: SpecConc with every thread an unmanaged one (lf_thread_id()   *)
(* is negative on all of them), so that every tracepoint and every         *)
(* register contends for trace_mutex.                                      *)
(***************************************************************************)
InitLock ==
  /\ InitData
  /\ thread_id = [t \in Threads |-> -1]

SpecLock == InitLock /\ [][NextConc]_vars

(***************************************************************************)
(* SpecPair: SpecConc with two threads calling, each a managed worker or   *)
(* an unmanaged thread; the slots being thread-local, two threads are what *)
(* it takes for one thread's spans to meet another's.                      *)
(***************************************************************************)
PairThreads == {1, 2}

InitPair ==
  /\ InitData
  /\ thread_id \in {f \in ThreadIds : \A t \in Threads \ PairThreads : f[t] = -1}

NextPair ==
  \/ \E t \in PairThreads :
       \/ ConcCall(t)
       \/ TP_Lock(t)
       \/ TP_CheckTracer(t)
       \/ TP_Filter(t)
       \/ TP_ReactionEnds(t)
       \/ TP_Find(t)
       \/ TP_StartSpan(t, TRUE)
       \/ TP_Stash(t)
       \/ TP_EventStart(t)
       \/ TP_EventEnd(t)
       \/ TP_Return(t)
       \/ Reg_Lock(t)
       \/ Reg_Write(t)
       \/ Reg_Return(t)
  \/ ConcLifecycle

SpecPair == InitPair /\ [][NextPair]_vars

(***************************************************************************)
(* SpecOwn: two threads calling tracepoints while the adapter is up, each  *)
(* call with a worker argument that names the calling thread or the other  *)
(* one.                                                                    *)
(***************************************************************************)
\* The worker numbers of the two calling threads.
OwnWorkers == {t - 1 : t \in PairThreads}

NextOwn ==
  \/ \E t \in PairThreads :
       \/ \E w \in OwnWorkers, tr \in ConcRecords : Up /\ TP_Call(t, w, tr)
       \/ TP_Lock(t)
       \/ TP_CheckTracer(t)
       \/ TP_Filter(t)
       \/ TP_ReactionEnds(t)
       \/ TP_Find(t)
       \/ TP_StartSpan(t, TRUE)
       \/ TP_Stash(t)
       \/ TP_EventStart(t)
       \/ TP_EventEnd(t)
       \/ TP_Return(t)
  \/ ConcLifecycle

SpecOwn == InitPair /\ [][NextOwn]_vars

(***************************************************************************)
(* Vocabulary of the properties.                                           *)
(***************************************************************************)

\* Spans thread t has opened and not closed.
OpenSpans(t) == {s \in SpanHandles : span_owner[s] = t}

\* Positions of thread t inside lf_tracing_tracepoint.
InTracepoint(t) == pc[t] \in {"tp_lock", "tp_tracer", "tp_get_tracer", "tp_filter", "tp_ends",
                              "tp_find", "tp_start", "tp_stash", "tp_event", "tp_event_end",
                              "tp_unlock"}

\* Thread t has done all the work of its tracepoint on branch p; only the
\* unlock and the return are left.
Handled(t, p) == pc[t] = "tp_unlock" /\ path[t] = p

\* Positions in calls[t] of the calls with operation op.
CallsOf(t, op) == {i \in 1..Len(calls[t]) : calls[t][i].op = op}

\* The calls of thread t's handling so far, as operations on span handles.
Ops(t) == [i \in 1..Len(calls[t]) |-> Call(calls[t][i].op, calls[t][i].span)]

\* The calls a handling makes for a span it creates and ends itself.
SelfContained(s) == <<Call("start_span", s), Call("set_span_attrs", s),
                      Call("set_span_attrs", s), Call("end_span", s)>>

\* The description string the subject of thread t's record resolves to
\* (NullString when it does not resolve).
ResolvedDescription(t) ==
  description_of(table, find_object_description(table, cur[t].pointer))

\* The start_span call and the two attribute batches of the span thread t's
\* handling has started (the first three calls of a handling that starts one).
Started(t) == calls[t][1]
LowBatch(t) == calls[t][2].attrs
HighBatch(t) == calls[t][3].attrs

\* The low-cardinality batches among the calls of thread t's handling: the
\* attribute maps that carry the key list.
SchemaKey == "xronos.schema.low_cardinality_attributes"
LowBatches(t) ==
  {calls[t][i].attrs : i \in {j \in CallsOf(t, "set_span_attrs") :
                                 SchemaKey \in DOMAIN calls[t][j].attrs}}
Listed(b) == {b[SchemaKey][i] : i \in 1..Len(b[SchemaKey])}

C2_EndBeforeStart ==
  \A t \in Threads :
    (Handled(t, "starts") /\ entry[t].span # 0) =>
      \E i \in CallsOf(t, "end_span"), j \in CallsOf(t, "start_span") :
        /\ calls[t][i].span = entry[t].span
        /\ i < j

(***************************************************************************)
(* C3.  A reaction_ends handled on an Open slot ends the stored span and   *)
(* leaves the slot Idle, whatever pointer and index the record carries;    *)
(* after any accepted reaction_ends the thread has no open span.           *)
(***************************************************************************)
C3_EndOnAnyEnd ==
  \A t \in Threads :
    Handled(t, "ends") =>
      /\ Slot(t) = IdleSlot
      /\ OpenSpans(t) = {}
      /\ entry[t].span # 0 =>
           /\ calls[t] = <<Call("end_span", entry[t].span)>>
           /\ span_owner[entry[t].span] = 0

\* An end whose record names another subject and another index than the start.
C3_Witness ==
  \E t \in Threads :
    /\ Handled(t, "ends")
    /\ entry[t].span # 0
    /\ cur[t].pointer # entry[t].pointer
    /\ cur[t].dst_id # entry[t].dst_id

(***************************************************************************)
(* C4.  A reaction_ends handled on an Idle slot is a no-op: no call into   *)
(* the Tracer Capability is made and the slot stays Idle.                  *)
(***************************************************************************)
C4_SpuriousEnd ==
  \A t \in Threads :
    (Handled(t, "ends") /\ entry[t].span = 0) =>
      /\ calls[t] = <<>>
      /\ Slot(t) = IdleSlot
      /\ "slot" \notin wrote[t]

C4_Witness ==
  \E t \in Threads : Handled(t, "ends") /\ entry[t] = IdleSlot /\ cur[t].pointer # 0


(***************************************************************************)
(* C5 (as amended).  The filter rejects a record exactly when the policy   *)
(* is reaction_only and the kind is neither reaction_starts nor            *)
(* reaction_ends, and a rejected handling makes no call into the Tracer    *)
(* Capability and leaves the slot alone, whatever the slot holds; under    *)
(* verbose every kind is accepted.  An accepted reaction_starts or other   *)
(* event starts exactly one span; an accepted reaction_ends starts none    *)
(* and ends the stored span if there is one.                               *)
(***************************************************************************)
C5_FilterPolicy ==
  [][\A t \in Threads :
       /\ (pc[t] = "tp_filter" /\ pc'[t] # "tp_filter" /\ cur[t] # NullRecord) =>
            (path'[t] = "rejected") <=>
               (trace_only_reactions = 1
                  /\ cur[t].event_type \notin {"reaction_starts", "reaction_ends"})
       /\ (pc[t] # "tp_unlock" /\ pc'[t] = "tp_unlock") =>
            /\ path'[t] = "rejected" =>
                 calls'[t] = <<>> /\ Slot(t)' = entry[t] /\ pc[t] = "tp_filter"
            /\ path'[t] \in {"starts", "event"} =>
                 Cardinality({i \in 1..Len(calls'[t]) : calls'[t][i].op = "start_span"}) = 1
            /\ path'[t] = "ends" =>
                 /\ {i \in 1..Len(calls'[t]) : calls'[t][i].op = "start_span"} = {}
                 /\ ({i \in 1..Len(calls'[t]) : calls'[t][i].op = "end_span"} # {})
                      <=> (entry[t].span # 0)
    ]_vars

\* A non-reaction event rejected while a reaction span is in flight.
C5_Witness ==
  \E t \in Threads :
    /\ Handled(t, "rejected")
    /\ cur[t].event_type = "schedule_called"
    /\ entry[t].span # 0

\* C5 as stated: under the verbose policy every event kind yields a span.
C5_VerboseEveryKindYieldsSpan ==
  \A t \in Threads :
    (pc[t] = "tp_unlock" /\ trace_only_reactions = 0 /\ cur[t] # NullRecord
       /\ path[t] # "rejected") =>
      CallsOf(t, "start_span") # {}

(***************************************************************************)
(* C6.  A tracepoint rejected by the event filter has no side effects: it  *)
(* changes neither the thread's slot, nor the registry, nor the tracer     *)
(* handle, and makes no call into the Tracer Capability.                   *)
(***************************************************************************)
C6_RejectedNoSideEffects ==
  \A t \in Threads :
    Handled(t, "rejected") =>
      /\ wrote[t] = {}
      /\ calls[t] = <<>>
      /\ Slot(t) = entry[t]

(***************************************************************************)
(* C7.  In verbose mode an event that is neither reaction_starts nor       *)
(* reaction_ends starts exactly one span and ends that same span within    *)
(* its handling, and leaves the slot as it was: a reaction span in flight  *)
(* is still open and still stored.                                         *)
(***************************************************************************)
C7_VerboseEventSelfContained ==
  \A t \in Threads :
    Handled(t, "event") =>
      /\ trace_only_reactions = 0
      /\ \E s \in SpanHandles :
           /\ Ops(t) = SelfContained(s)
           /\ s # entry[t].span
           /\ span_owner[s] = 0
      /\ Slot(t) = entry[t]
      /\ "slot" \notin wrote[t]
      /\ entry[t].span # 0 => span_owner[entry[t].span] = t

\* A verbose event handled while a reaction span is in flight.
C7_Witness ==
  \E t \in Threads : Handled(t, "event") /\ entry[t].span # 0


(***************************************************************************)
(* C8 (as amended).  For a description registered while the table holds    *)
(* fewer than TRACE_OBJECT_TABLE_SIZE entries, a resolve of its identity   *)
(* right after the store returns the entry just stored, provided the       *)
(* identity is not null and not already in the table; for an identity      *)
(* already in the table the resolve returns the earlier entry as before,   *)
(* and for the null identity it returns nothing.                           *)
(***************************************************************************)
C8_ResolveAfterRegister ==
  [][\A t \in Threads :
       (pc[t] = "reg_write" /\ pc'[t] = "reg_unlock"
          /\ Len(table) < TRACE_OBJECT_TABLE_SIZE) =>
         LET p == desc[t].pointer
             before == find_object_description(table, p)
             after == find_object_description(table', p)
         IN /\ (p # 0 /\ before = 0) =>
                 after = Len(table') /\ after = Len(table) + 1 /\ table'[after] = desc[t]
            /\ (p # 0 /\ before # 0) => after = before /\ table'[after] = table[before]
            /\ p = 0 => after = 0
    ]_vars

\* A fresh identity stored behind another entry and resolved to its own entry.
C8_Witness ==
  \E t \in Threads :
    /\ pc[t] = "reg_unlock"
    /\ "registry" \in wrote[t]
    /\ Len(table) >= 2
    /\ desc[t].pointer # 0
    /\ find_object_description(table, desc[t].pointer) = Len(table)
    /\ table[Len(table)] = desc[t]

\* C8 as stated: below capacity the resolve returns the just-registered
\* description for every identity (here for a register that holds trace_mutex).
C8_ResolveEveryIdentity ==
  [][\A t \in Threads :
       (pc[t] = "reg_write" /\ pc'[t] = "reg_unlock"
          /\ trace_mutex = "valid" /\ holder = t
          /\ Len(table) < TRACE_OBJECT_TABLE_SIZE) =>
         LET after == find_object_description(table', desc[t].pointer)
         IN after # 0 /\ table'[after] = desc[t]
    ]_vars

(***************************************************************************)
(* C9.  The registry is append-only and bounded: it never holds more than  *)
(* TRACE_OBJECT_TABLE_SIZE entries, no step changes or removes a stored    *)
(* entry, a register on a full table leaves the table as it is and the     *)
(* process running, and an identity that resolved before a step resolves   *)
(* to the same entry after it.                                             *)
(***************************************************************************)
C9_AppendOnlyBounded ==
  [][/\ Len(table') <= TRACE_OBJECT_TABLE_SIZE
     /\ Len(table) <= Len(table')
     /\ \A i \in 1..Len(table) : table'[i] = table[i]
     /\ \A p \in Pointers :
          find_object_description(table, p) # 0 =>
            find_object_description(table', p) = find_object_description(table, p)
     /\ \A t \in Threads :
          (pc[t] = "reg_write" /\ pc'[t] # "reg_write"
             /\ Len(table) = TRACE_OBJECT_TABLE_SIZE) =>
            table' = table /\ proc' = proc /\ pc'[t] = "reg_unlock"
    ]_vars

\* A register on a full table has dropped a description the table does not hold.
C9_Witness ==
  \E t \in Threads :
    /\ pc[t] = "reg_unlock"
    /\ Len(table) = TRACE_OBJECT_TABLE_SIZE
    /\ "registry" \notin wrote[t]
    /\ \A i \in 1..Len(table) : table[i] # desc[t]

(***************************************************************************)
(* C10.  Every access to the object registry is made under trace_mutex: no *)
(* lookup by a tracepoint on one thread overlaps a registry write by a     *)
(* register call on another thread.                                        *)
(***************************************************************************)
C10_NoLookupDuringWrite ==
  \A t \in Threads, u \in Threads :
    (t # u /\ pc[u] = "reg_write" /\ holder = u /\ trace_mutex = "valid") =>
      pc[t] # "tp_find"

(***************************************************************************)
(* C11.  A tracepoint on an unmanaged thread (lf_thread_id() < 0) holds    *)
(* trace_mutex from before its first access to the tracer handle, the      *)
(* registry or the slot and its first Tracer Capability call until after   *)
(* the last one, on every path; so two unmanaged threads are never past    *)
(* the lock of a tracepoint at the same time.                              *)
(***************************************************************************)
C11_LockHeldThroughout ==
  /\ \A t \in Threads :
       (thread_id[t] < 0 /\ InTracepoint(t) /\ pc[t] # "tp_lock") =>
         holder = t /\ trace_mutex = "valid"
  /\ \A t \in Threads :
       (thread_id[t] < 0 /\ (pc[t] \in {"idle", "tp_lock"})) =>
         calls[t] = <<>> /\ wrote[t] = {} /\ holder # t
  /\ \A t \in Threads, u \in Threads :
       (t # u /\ thread_id[t] < 0 /\ thread_id[u] < 0) =>
         ~(InTracepoint(t) /\ pc[t] # "tp_lock" /\ InTracepoint(u) /\ pc[u] # "tp_lock")

\* An unmanaged thread has finished a reaction_starts and still holds the
\* lock while another unmanaged thread waits for it.
C11_Witness ==
  \E t \in Threads, u \in Threads :
    /\ thread_id[t] < 0 /\ thread_id[u] < 0
    /\ Handled(t, "starts")
    /\ holder = t
    /\ pc[u] = "tp_lock"

(***************************************************************************)
(* C12 (as amended).  Span naming.  For a reaction_starts whose subject    *)
(* resolves to a non-empty description D: with a reaction index i >= 0 the *)
(* name is "D.i", unless the buffer for it could not be allocated, and     *)
(* then it is D and no xronos.fqn is set; with a negative index the name   *)
(* is the bare description D.  When the subject does not resolve or        *)
(* resolves to an empty description the name is "reaction".  For a         *)
(* non-reaction event in verbose mode the name is the event-kind label.    *)
(***************************************************************************)
C12_SpanNaming ==
  \A t \in Threads :
    /\ Handled(t, "starts") =>
         LET D == ResolvedDescription(t)
             i == cur[t].dst_id
             name == Started(t).name
         IN /\ Started(t).op = "start_span"
            /\ (D \notin {NullString, ""} /\ i >= 0) =>
                 /\ name \in {D \o "." \o decimal(i), D}
                 /\ (name = D \o "." \o decimal(i)) <=> ("xronos.fqn" \in DOMAIN LowBatch(t))
            /\ (D \notin {NullString, ""} /\ i < 0) => name = D
            /\ D \in {NullString, ""} => name = "reaction"
    /\ Handled(t, "event") =>
         /\ Started(t).op = "start_span"
         /\ cur[t].event_type = "schedule_called" => Started(t).name = "Schedule called"

\* A reaction_starts with an absent reaction index on a registered reactor:
\* the span carries the reactor's bare description as its name.
C12_Witness ==
  \E t \in Threads :
    /\ Handled(t, "starts")
    /\ ResolvedDescription(t) = "Parent.Child"
    /\ cur[t].dst_id < 0
    /\ Started(t).name = "Parent.Child"

\* C12 as stated, for a negative reaction index: the name is
\* "<container_fqn>.<reaction_index>" whenever the subject resolves to a
\* non-empty description.
C12_NegativeIndexNamed ==
  \A t \in Threads :
    (Handled(t, "starts") /\ ResolvedDescription(t) \notin {NullString, ""}
       /\ cur[t].dst_id < 0) =>
      Started(t).name = ResolvedDescription(t) \o "." \o decimal(cur[t].dst_id)

(***************************************************************************)
(* C13.  In every low-cardinality batch the value of                       *)
(* xronos.schema.low_cardinality_attributes lists exactly the other keys   *)
(* set in the batch, each once: xronos.element_type always, xronos.fqn and *)
(* xronos.name together or not at all, and xronos.container_fqn only with  *)
(* those two; so the list is one of {element_type}, {element_type, fqn,    *)
(* name} and {element_type, fqn, name, container_fqn}.                     *)
(***************************************************************************)
C13_SchemaListsKeysSet ==
  \A t \in Threads : \A b \in LowBatches(t) :
    /\ Listed(b) = DOMAIN b \ {SchemaKey}
    /\ Len(b[SchemaKey]) = Cardinality(Listed(b))
    /\ "xronos.element_type" \in Listed(b)
    /\ ("xronos.fqn" \in DOMAIN b) <=> ("xronos.name" \in DOMAIN b)
    /\ ("xronos.container_fqn" \in DOMAIN b) =>
         ("xronos.fqn" \in DOMAIN b /\ "xronos.name" \in DOMAIN b)
    /\ Listed(b) \in {{"xronos.element_type"},
                       {"xronos.element_type", "xronos.fqn", "xronos.name"},
                       {"xronos.element_type", "xronos.fqn", "xronos.name",
                        "xronos.container_fqn"}}

\* A reaction span whose batch sets and lists all four keys.
C13_Witness ==
  \E t \in Threads :
    /\ Handled(t, "starts")
    /\ Cardinality(Listed(LowBatch(t))) = 4
    /\ "xronos.container_fqn" \in DOMAIN LowBatch(t)

\* The low-cardinality batch of a reaction with FQN "D.i" in container D, and
\* the batch of a reaction without an FQN.
FullReactionBatch(D, i) ==
  [k \in {"xronos.element_type", "xronos.fqn", "xronos.name", "xronos.container_fqn",
          SchemaKey} |->
     CASE k = "xronos.element_type" -> "reaction"
       [] k = "xronos.fqn" -> D \o "." \o decimal(i)
       [] k = "xronos.name" -> decimal(i)
       [] k = "xronos.container_fqn" -> D
       [] k = SchemaKey -> <<"xronos.element_type", "xronos.fqn", "xronos.name",
                             "xronos.container_fqn">>]
BareReactionBatch ==
  [k \in {"xronos.element_type", SchemaKey} |->
     IF k = SchemaKey THEN <<"xronos.element_type">> ELSE "reaction"]

(***************************************************************************)
(* C14 (as amended).  For a reaction_starts whose subject resolves to a    *)
(* non-empty description D and whose reaction index i is >= 0, the span is *)
(* named "D.i" and its low-cardinality batch is exactly                    *)
(* element_type = "reaction", fqn = "D.i", name = decimal(i),              *)
(* container_fqn = D, so that fqn is container_fqn, a separator and name;  *)
(* unless the buffer for "D.i" could not be allocated, and then the span   *)
(* is named D and its batch holds xronos.element_type alone.               *)
(***************************************************************************)
C14_ResolvedReactionBatch ==
  \A t \in Threads :
    (Handled(t, "starts") /\ ResolvedDescription(t) \notin {NullString, ""}
       /\ cur[t].dst_id >= 0) =>
      LET D == ResolvedDescription(t)
          i == cur[t].dst_id
      IN \/ /\ Started(t).name = D \o "." \o decimal(i)
            /\ LowBatch(t) = FullReactionBatch(D, i)
            /\ LowBatch(t)["xronos.fqn"] =
                 LowBatch(t)["xronos.container_fqn"] \o "." \o LowBatch(t)["xronos.name"]
         \/ /\ Started(t).name = D
            /\ LowBatch(t) = BareReactionBatch

\* Reaction 0 of the reactor registered as "Parent.Child", fully named.
C14_Witness ==
  \E t \in Threads :
    /\ Handled(t, "starts")
    /\ ResolvedDescription(t) = "Parent.Child"
    /\ cur[t].dst_id = 0
    /\ Started(t).name = "Parent.Child.0"
    /\ LowBatch(t)["xronos.fqn"] = "Parent.Child.0"
    /\ LowBatch(t)["xronos.name"] = "0"
    /\ LowBatch(t)["xronos.container_fqn"] = "Parent.Child"

\* C14 as stated: with a resolved non-empty D and i >= 0 the span is always
\* named "D.i" and always carries the full batch.
C14_AlwaysFullBatch ==
  \A t \in Threads :
    (Handled(t, "starts") /\ ResolvedDescription(t) \notin {NullString, ""}
       /\ cur[t].dst_id >= 0) =>
      /\ Started(t).name = ResolvedDescription(t) \o "." \o decimal(cur[t].dst_id)
      /\ LowBatch(t) = FullReactionBatch(ResolvedDescription(t), cur[t].dst_id)

(***************************************************************************)
(* C15.  A reaction_starts whose subject does not resolve in the registry  *)
(* (it was never registered, or its registration was dropped by a full     *)
(* table) is not an error: the process keeps running, a span named         *)
(* "reaction" is opened, its low-cardinality batch holds                   *)
(* xronos.element_type alone and lists only that key, and the slot becomes *)
(* Open with the new span, the record's pointer and its index, as for a    *)
(* resolved subject.                                                       *)
(***************************************************************************)
C15_UnresolvedSubject ==
  \A t \in Threads :
    (Handled(t, "starts") /\ find_object_description(table, cur[t].pointer) = 0) =>
      /\ proc = "running"
      /\ Started(t).op = "start_span"
      /\ Started(t).name = "reaction"
      /\ LowBatch(t) = BareReactionBatch
      /\ Slot(t) = [span |-> Started(t).span, pointer |-> cur[t].pointer,
                    dst_id |-> cur[t].dst_id]
      /\ span_owner[Started(t).span] = t

\* The table is full of other objects, so the subject's registration could
\* only have been dropped; its reaction_starts has been handled.
C15_Witness ==
  \E t \in Threads :
    /\ Handled(t, "starts")
    /\ cur[t].pointer # 0
    /\ Len(table) = TRACE_OBJECT_TABLE_SIZE
    /\ find_object_description(table, cur[t].pointer) = 0
    /\ active_reaction_span[t] = Started(t).span

(***************************************************************************)
(* C16.  Every span a handling starts (a reaction span or a verbose event  *)
(* span) receives a high-cardinality batch with exactly the three keys     *)
(* xronos.timestamp = logical_time, xronos.microstep = microstep and       *)
(* xronos.lag = physical_time - logical_time; the lag is signed, negative  *)
(* when physical_time < logical_time, and never clamped to zero.           *)
(***************************************************************************)
C16_HighCardinalityBatch ==
  \A t \in Threads :
    (Handled(t, "starts") \/ Handled(t, "event")) =>
      /\ CallsOf(t, "start_span") = {1}
      /\ calls[t][3].op = "set_span_attrs"
      /\ calls[t][3].span = Started(t).span
      /\ DOMAIN HighBatch(t) = {"xronos.timestamp", "xronos.microstep", "xronos.lag"}
      /\ HighBatch(t)["xronos.timestamp"] = cur[t].logical_time
      /\ HighBatch(t)["xronos.microstep"] = cur[t].microstep
      /\ HighBatch(t)["xronos.lag"] = cur[t].physical_time - cur[t].logical_time
      /\ (cur[t].physical_time < cur[t].logical_time) => HighBatch(t)["xronos.lag"] < 0

\* logical_time = 1000 and physical_time = 950 give a lag of -50.
C16_Witness ==
  \E t \in Threads :
    /\ Handled(t, "starts") \/ Handled(t, "event")
    /\ cur[t].logical_time = 1000
    /\ cur[t].physical_time = 950
    /\ HighBatch(t)["xronos.lag"] = -50

(***************************************************************************)
(* C17.  A tracepoint called with a null record is a no-op in every        *)
(* reachable state: it starts and ends no span, and the thread's slot, the *)
(* registry and the tracer handle are after it what they were before.      *)
(***************************************************************************)
C17_NullRecordNoOp ==
  \A t \in Threads :
    Handled(t, "null") =>
      /\ calls[t] = <<>>
      /\ Slot(t) = entry[t]
      /\ wrote[t] = {}

(***************************************************************************)
(* C18.  Over any interleaving of lf_tracing_global_init, tracepoints and  *)
(* lf_tracing_global_shutdown a tracer is obtained from the Tracer         *)
(* Capability exactly once, by lf_tracing_global_init and never by a       *)
(* tracepoint: none before init, one from init on; every tracer obtained   *)
(* has been destroyed, once, when shutdown has run; and after shutdown no  *)
(* tracer is obtained or held.                                             *)
(***************************************************************************)
C18_TracerOnceAndDestroyed ==
  /\ tracers_obtained <= 1
  /\ trace_mutex = "NULL" => tracers_obtained = 0
  /\ trace_mutex \in {"valid", "freed"} => tracers_obtained = 1
  /\ trace_mutex = "valid" => tracers_destroyed = {}
  /\ trace_mutex = "freed" => tracer = 0 /\ tracers_destroyed = 1..tracers_obtained

(***************************************************************************)
(* C19.  When lf_platform_mutex_new() fails in lf_tracing_global_init the  *)
(* process is ended right there: that step reads no policy, creates and    *)
(* initialises no backend and obtains no tracer, so the policy and the     *)
(* backend are only ever set by an initialisation that has its mutex; and  *)
(* once the process has been ended no tracepoint and no register call      *)
(* takes another step.                                                     *)
(***************************************************************************)
C19_MutexFailureAborts ==
  [][/\ (proc = "running" /\ proc' = "exited") =>
          /\ trace_mutex = "NULL"
          /\ UNCHANGED <<trace_mutex, holder, trace_only_reactions, backend, tracer,
                         tracers_obtained, tracers_destroyed, table, span_owner, pc>>
     /\ trace_mutex' = "NULL" => UNCHANGED <<backend, trace_only_reactions>>
     /\ proc' = "exited" =>
          trace_mutex' = "NULL" /\ backend' = "NULL" /\ trace_only_reactions' = 1
     /\ proc = "exited" => UNCHANGED vars
    ]_vars

\* lf_tracing_global_init has failed to get its mutex while a thread was
\* inside a tracepoint: the process has ended with nothing set up.
C19_Witness ==
  /\ proc = "exited"
  /\ trace_mutex = "NULL"
  /\ backend = "NULL"
  /\ trace_only_reactions = 1
  /\ tracers_obtained = 0
  /\ \E t \in Threads : InTracepoint(t)

\* The handles thread t passes to otelc_end_span in the step being taken.
EndedNow(t) ==
  {calls'[t][i].span : i \in {j \in (Len(calls[t]) + 1)..Len(calls'[t]) :
                                 calls'[t][j].op = "end_span"}}

(***************************************************************************)
(* C20.  No span handle is ended twice: otelc_end_span is only ever called *)
(* on a span that is open and was started by the calling thread, and the   *)
(* handle stored in a slot is that of an open span.  A reaction span is    *)
(* ended exactly once by the next accepted reaction_starts or              *)
(* reaction_ends its thread handles, and a verbose non-reaction event      *)
(* handled in between does not end it.                                     *)
(***************************************************************************)
C20_EndedOnce ==
  [][\A t \in Threads :
       /\ \A s \in EndedNow(t) :
            s \in SpanHandles /\ span_owner[s] = t /\ span_owner'[s] = 0
       /\ active_reaction_span'[t] # 0 => span_owner'[active_reaction_span'[t]] = t
       /\ (pc[t] # "tp_unlock" /\ pc'[t] = "tp_unlock" /\ entry[t].span # 0) =>
            LET ends == {i \in 1..Len(calls'[t]) :
                           calls'[t][i] = Call("end_span", entry[t].span)}
            IN /\ path'[t] \in {"starts", "ends"} =>
                    Cardinality(ends) = 1 /\ span_owner'[entry[t].span] = 0
               /\ path'[t] \in {"event", "rejected", "null"} =>
                    /\ ends = {}
                    /\ span_owner'[entry[t].span] = t
                    /\ active_reaction_span'[t] = entry[t].span
    ]_vars

\* One thread has handled a verbose event with its reaction span in flight
\* and kept it; another has force-closed its reaction span on a second
\* reaction_starts.
C20_Witness ==
  \E t \in Threads, u \in Threads :
    /\ t # u
    /\ Handled(t, "event")
    /\ entry[t].span # 0
    /\ span_owner[entry[t].span] = t
    /\ Handled(u, "starts")
    /\ entry[u].span # 0
    /\ Call("end_span", entry[u].span) \in {calls[u][i] : i \in 1..Len(calls[u])}

\* The calls up to position i of thread t's handling that start, and that
\* end, span s.
StartsBefore(t, i, s) ==
  {j \in 1..(i - 1) : calls[t][j].op = "start_span" /\ calls[t][j].span = s}
EndsBefore(t, i, s) == {j \in 1..(i - 1) : calls[t][j] = Call("end_span", s)}

(***************************************************************************)
(* C21.  Every span gets otelc_set_span_attrs exactly twice, first with    *)
(* the low-cardinality batch and then with the high-cardinality batch,     *)
(* both after its start_span and before its end_span.  For a reaction span *)
(* both batches are attached in the reaction_starts handling before the    *)
(* handle is stored in the slot, and a reaction_ends attaches nothing.     *)
(***************************************************************************)
C21_TwoBatchesInOrder ==
  \A t \in Threads :
    /\ \A i \in CallsOf(t, "set_span_attrs") :
         /\ StartsBefore(t, i, calls[t][i].span) # {}
         /\ EndsBefore(t, i, calls[t][i].span) = {}
    /\ \A i \in CallsOf(t, "start_span") :
         LET s == calls[t][i].span
         IN /\ {j \in CallsOf(t, "set_span_attrs") : calls[t][j].span = s} = {i + 1, i + 2}
            /\ SchemaKey \in DOMAIN calls[t][i + 1].attrs
            /\ "xronos.timestamp" \notin DOMAIN calls[t][i + 1].attrs
            /\ "xronos.timestamp" \in DOMAIN calls[t][i + 2].attrs
            /\ SchemaKey \notin DOMAIN calls[t][i + 2].attrs
    /\ pc[t] = "tp_stash" =>
         /\ active_reaction_span[t] # new_span[t]
         /\ {j \in CallsOf(t, "set_span_attrs") : calls[t][j].span = new_span[t]} = {2, 3}
    /\ Handled(t, "starts") =>
         /\ active_reaction_span[t] = Started(t).span
         /\ Cardinality(CallsOf(t, "set_span_attrs")) = 2
    /\ Handled(t, "event") => Cardinality(CallsOf(t, "set_span_attrs")) = 2
    /\ Handled(t, "ends") => CallsOf(t, "set_span_attrs") = {}

\* A reaction_starts on an Open slot is about to store its new span: both
\* batches are on it, the low-cardinality one first, and the old span is
\* still the one in the slot.
C21_Witness ==
  \E t \in Threads :
    /\ pc[t] = "tp_stash"
    /\ active_reaction_span[t] # 0
    /\ Len(calls[t]) = 3
    /\ calls[t][2].attrs["xronos.element_type"] = "reaction"
    /\ calls[t][3].attrs["xronos.lag"] = -50

(***************************************************************************)
(* C22.  A thread's slot is changed only by tracepoints that run on that   *)
(* thread: a step of a call on thread a leaves the slot of every other     *)
(* thread b as it is and ends no span that b has open, whatever worker     *)
(* argument the call was given and whether the threads are managed or      *)
(* not; and the lifecycle hooks change no slot.                            *)
(***************************************************************************)
C22_SlotOwnedByThread ==
  [][/\ \A a \in Threads :
          pc'[a] # pc[a] =>
            \A b \in Threads \ {a} :
              /\ Slot(b)' = Slot(b)
              /\ \A s \in OpenSpans(b) : span_owner'[s] = b /\ s \notin EndedNow(a)
     /\ (\A t \in Threads : Slot(t)' = Slot(t)) \/ (\E t \in Threads : pc'[t] # pc[t])
    ]_vars

\* Thread a, called with the worker number of thread b, has handled a
\* reaction_starts and a has its own new span; b's slot still holds b's
\* open span.
C22_Witness ==
  \E a \in Threads, b \in Threads :
    /\ a # b
    /\ Handled(a, "starts")
    /\ worker[a] = b - 1
    /\ "slot" \in wrote[a]
    /\ active_reaction_span[b] # 0
    /\ span_owner[active_reaction_span[b]] = b
    /\ active_reaction_span[a] # active_reaction_span[b]
    /\ span_owner[active_reaction_span[a]] = a

\* Positions at which a call of thread t is between its lock and its unlock.
LockHeldAt(t) ==
  \/ pc[t] \in {"reg_write", "reg_unlock"}
  \/ thread_id[t] < 0 /\ InTracepoint(t) /\ pc[t] # "tp_lock"

(***************************************************************************)
(* C23.  Lock balance.  trace_mutex is held by a thread exactly while that *)
(* thread is between the lock and the unlock of a register call or of a    *)
(* tracepoint on an unmanaged thread: it is taken only by the lock step of *)
(* such a call, released only by the call's return, and every return of    *)
(* such a call releases it, on every path.  So no thread holds it between  *)
(* calls, and a holder is always a thread inside a call that goes on to    *)
(* its unlock.  A tracepoint on a runtime-managed thread never takes or    *)
(* releases it.                                                            *)
(***************************************************************************)
C23_LockBalance ==
  [][/\ \A t \in Threads : (holder' = t) <=> LockHeldAt(t)'
     /\ \A t \in Threads : pc'[t] = "idle" => holder' # t
     /\ \A t \in Threads :
          pc'[t] # pc[t] =>
            /\ (holder' # holder) =>
                 \/ /\ pc[t] \in {"tp_lock", "reg_lock"}
                    /\ holder = 0 /\ holder' = t
                 \/ /\ pc[t] \in {"tp_unlock", "reg_unlock"} /\ pc'[t] = "idle"
                    /\ holder = t /\ holder' = 0
            /\ (pc'[t] = "idle" /\ (pc[t] = "reg_unlock"
                                     \/ (pc[t] = "tp_unlock" /\ thread_id[t] < 0))) =>
                 holder = t /\ holder' = 0
            /\ (thread_id[t] >= 0 /\ InTracepoint(t)) =>
                 holder' = holder /\ holder # t /\ pc[t] # "tp_lock"
    ]_vars

\* An unmanaged thread is about to return from a rejected event and still
\* holds the lock, while a managed thread is inside a reaction_starts
\* without it.
C23_Witness ==
  \E t \in Threads, u \in Threads :
    /\ thread_id[t] < 0
    /\ Handled(t, "rejected")
    /\ holder = t
    /\ thread_id[u] >= 0
    /\ pc[u] = "tp_stash"

====
